---- MODULE Spec2Model ----
(***************************************************************************)
(* Model of git-trim's core (src/src/core.rs): the merge oracle            *)
(* (is_merged / is_squash_merged), the per-branch classifier (classify),   *)
(* the accumulator (MergedOrStray::accumulate) and the planner guards of   *)
(* MergedOrStrayAndKeptBacks (keep_base, keep_protected,                   *)
(* keep_non_heads_remotes, apply_filter, adjust_not_to_detach).            *)
(*                                                                         *)
(* A refname is a sequence of path components: refs/heads/a is             *)
(* <<"refs", "heads", "a">>.  A HashSet is a set, a HashMap is a function  *)
(* whose DOMAIN is the key set, an Option is the empty set or a singleton, *)
(* and a Result is a record with an ok flag.                               *)
(***************************************************************************)
EXTENDS Naturals, Sequences, FiniteSets, TLC

VARIABLES
    repo,            \* the repository snapshot: commits, refs, HEAD
    plan,            \* the MergedOrStrayAndKeptBacks under construction
    base_refs,       \* argument of keep_base (empty until supplied)
    protected_refs,  \* argument of keep_protected (empty until supplied)
    filter,          \* argument of apply_filter
    config,          \* the upstream configuration of the candidate branches
    merged_hint,     \* classify's merged_locals: branches known to be merged
    remote_heads,  \* the heads each bare-URL remote publishes
    classifications, \* the Classification of each branch classified so far
    accumulated,     \* the branches whose result has been accumulated
    merged_or_stray, \* the accumulator of the classification results
    answer,          \* what a call of is_merged returned, once it returned
    pc,              \* the guard the planner is at, or "done"
    error            \* whether the guard at pc returned an error

classifierVars == <<config, merged_hint, remote_heads, classifications,
                    accumulated, merged_or_stray>>

vars == <<repo, plan, base_refs, protected_refs, filter, answer, pc, error,
          classifierVars>>

----------------------------------------------------------------------------
(* Bounds of the model.                                                    *)

\* largest number of candidates in a starting plan
MaxCandidates == 2
\* largest size of base_refs and of protected_refs
MaxKeepRefs == 1
\* largest number of local branches whose reference is absent from the
\* repository
MaxMissing == 1
\* number of commits of the object stores the merge oracle is run on
MaxCommits == 4
\* number of files a tree may hold
MaxFiles == 2

----------------------------------------------------------------------------
(* Refnames and remote branches.                                           *)

LocalRefs == {<<"refs", "heads", "a">>, <<"refs", "heads", "b">>}

RemoteBranches ==
    {[remote |-> "origin", refname |-> <<"refs", "heads", "a">>],
     [remote |-> "origin", refname |-> <<"refs", "pull", "1", "head">>]}

Remotes == {"origin"}

\* str::starts_with on path components
starts_with(s, prefix) ==
    /\ Len(s) >= Len(prefix)
    /\ SubSeq(s, 1, Len(prefix)) = prefix

ends_with(s, suffix) ==
    /\ Len(s) >= Len(suffix)
    /\ SubSeq(s, Len(s) - Len(suffix) + 1, Len(s)) = suffix

\* The fetch refspecs of a remote, src*src_tail : dst*; the pull-request
\* refspec is the one hub-cli style tooling adds.
Refspecs(remote) ==
    <<[src |-> <<"refs", "pull">>, src_tail |-> <<"head">>,
       dst |-> <<"refs", "remotes", remote, "pr">>],
      [src |-> <<"refs", "heads">>, src_tail |-> <<>>,
       dst |-> <<"refs", "remotes", remote>>]>>

\* The refname `refname` of the remote expands to under the remote's first
\* matching fetch refspec: a set of at most one refname.
expand_refspec(remote, refname) ==
    LET specs == Refspecs(remote)
        Match(i) == /\ starts_with(refname, specs[i].src)
                    /\ ends_with(refname, specs[i].src_tail)
                    /\ Len(refname) > Len(specs[i].src) + Len(specs[i].src_tail)
        hits == {i \in DOMAIN specs : Match(i)}
    IN  IF hits = {} THEN {}
        ELSE LET i == CHOOSE j \in hits : \A k \in hits : j <= k
                 stem == SubSeq(refname, Len(specs[i].src) + 1,
                                Len(refname) - Len(specs[i].src_tail))
             IN  {specs[i].dst \o stem}

\* RemoteTrackingBranch::from_remote_branch: the remote-tracking refname of
\* a remote branch, when the remote is configured and the ref exists.
from_remote_branch(r, remote_branch) ==
    IF remote_branch.remote \notin Remotes THEN {}
    ELSE {t \in expand_refspec(remote_branch.remote, remote_branch.refname) :
            t \in DOMAIN r.target}

TrackingRefs ==
    UNION {expand_refspec(rb.remote, rb.refname) : rb \in RemoteBranches}

AllRefs == LocalRefs \cup TrackingRefs

----------------------------------------------------------------------------
(* The plan model.                                                         *)

EmptyMergedOrStray ==
    [merged_locals |-> {}, stray_locals |-> {},
     merged_remotes |-> {}, stray_remotes |-> {}]

EmptyMap == [k \in {} |-> {}]

Reason(classification, message) ==
    [original_classification |-> classification, message |-> message]

\* HashMap::extend / insert: later entries replace earlier ones
Extend(m, n) ==
    [k \in DOMAIN m \cup DOMAIN n |-> IF k \in DOMAIN n THEN n[k] ELSE m[k]]

\* the map giving `reason` to every key of `keys`
AllTo(keys, reason) == [k \in keys |-> reason]

Ok(self) == [ok |-> TRUE, plan |-> self]
Err(self) == [ok |-> FALSE, plan |-> self]

----------------------------------------------------------------------------
(* The repository: an object store of commits, each with at most one       *)
(* parent (0: none) and a tree, the set of files it holds; refs naming     *)
(* commits by their index in the store; and HEAD.                          *)

Commit(parent, tree) == [parent |-> parent, tree |-> tree]

RootCommit == Commit(0, {})

\* the commits reachable from commit c, c included
RECURSIVE ancestors(_, _)
ancestors(commits, c) ==
    IF c = 0 THEN {} ELSE {c} \cup ancestors(commits, commits[c].parent)

----------------------------------------------------------------------------
(* Repository access.                                                      *)

\* Repository::find_reference followed by Reference::name: the name of
\* the reference found, an error when the reference is missing.
find_reference(r, refname) ==
    IF refname \in DOMAIN r.target THEN [ok |-> TRUE, name |-> refname]
    ELSE [ok |-> FALSE, name |-> <<>>]

\* Repository::head: fails on an unborn branch (HEAD names a missing ref)
head(r) ==
    IF r.head.name \in DOMAIN r.target THEN [ok |-> TRUE, name |-> r.head.name]
    ELSE [ok |-> FALSE, name |-> <<>>]

----------------------------------------------------------------------------
(* The merge oracle.                                                       *)

\* Repository::find_reference(..)?.peel_to_commit()?.id()
peel_to_commit(r, refname) ==
    IF find_reference(r, refname).ok
    THEN [ok |-> TRUE, id |-> r.target[refname]]
    ELSE [ok |-> FALSE, id |-> 0]

\* Repository::merge_base: the best common ancestor, an error when the two
\* commits share no history
merge_base(r, one, two) ==
    LET common == ancestors(r.commits, one) \cap ancestors(r.commits, two)
    IN  IF common = {} THEN [ok |-> FALSE, id |-> 0]
        ELSE [ok |-> TRUE,
              id |-> CHOOSE c \in common : common \subseteq ancestors(r.commits, c)]

\* the change a commit makes to its parent's tree
patch(commits, c) ==
    LET before == IF commits[c].parent = 0 THEN {}
                  ELSE commits[commits[c].parent].tree
    IN  [added |-> commits[c].tree \ before, removed |-> before \ commits[c].tree]

\* subprocess::is_merged_by_rev_list, the ancestry test by a rev-list walk:
\* every commit of `other` that `base` does not reach has its change in a
\* commit of `base` that `other` does not reach.  True of every ancestor.
is_merged_by_rev_list(commits, base, other) ==
    LET right_only == ancestors(commits, other) \ ancestors(commits, base)
        left_only == ancestors(commits, base) \ ancestors(commits, other)
    IN  \A c \in right_only :
            \E d \in left_only : patch(commits, d) = patch(commits, c)

\* the store after Repository::commit wrote the dangling commit, the last
dangling_commit(commits, tree, parent) == Append(commits, Commit(parent, tree))

is_squash_merged(r, merge_base_id, base_id, other_id) ==
    LET tree == r.commits[other_id].tree
        commits == dangling_commit(r.commits, tree, merge_base_id)
    IN  is_merged_by_rev_list(commits, base_id, Len(commits))

is_merged(r, base, refname) ==
    LET base_oid == peel_to_commit(r, base)
        other_oid == peel_to_commit(r, refname)
        mb == merge_base(r, base_oid.id, other_oid.id)
    IN  IF ~base_oid.ok \/ ~other_oid.ok THEN [ok |-> FALSE, value |-> FALSE]
        ELSE IF ~mb.ok THEN [ok |-> FALSE, value |-> FALSE]
        ELSE [ok |-> TRUE,
              value |-> \/ is_merged_by_rev_list(r.commits, base_oid.id, other_oid.id)
                        \/ is_squash_merged(r, mb.id, base_oid.id, other_oid.id)]

----------------------------------------------------------------------------
(* The upstream resolver.  The configuration of a branch names its remote  *)
(* (a configured remote or a bare URL), the refname it merges from and,    *)
(* when it pushes elsewhere, the refname it pushes to.                     *)

\* config::get_remote_raw
get_remote_raw(cfg, refname) ==
    IF refname \in DOMAIN cfg THEN {cfg[refname].remote} ELSE {}

\* config::get_merge
get_merge(cfg, refname) ==
    IF refname \in DOMAIN cfg THEN {cfg[refname].merge} ELSE {}

\* branch::get_fetch_upstream: none for a URL remote or a pruned ref
get_fetch_upstream(r, cfg, refname) ==
    UNION {from_remote_branch(r, [remote |-> remote, refname |-> merge]) :
              remote \in get_remote_raw(cfg, refname),
              merge \in get_merge(cfg, refname)}

\* branch::get_push_upstream: the push destination, the merge refname
\* unless the configuration names another
get_push_upstream(r, cfg, refname) ==
    IF refname \notin DOMAIN cfg THEN {}
    ELSE UNION {from_remote_branch(r, [remote |-> cfg[refname].remote,
                                       refname |-> pushed]) :
                  pushed \in cfg[refname].push}

\* RemoteTrackingBranch::remote_branch: the remote branch a remote-tracking
\* refname mirrors under the remotes' fetch refspecs
tracking_remote_branch(r, refname) ==
    LET Hit(remote, i) == /\ starts_with(refname, Refspecs(remote)[i].dst)
                          /\ Len(refname) > Len(Refspecs(remote)[i].dst)
        hits == {h \in Remotes \X {1, 2} : Hit(h[1], h[2])}
    IN  IF hits = {} THEN [ok |-> FALSE, branch |-> <<>>]
        ELSE LET h == CHOOSE x \in hits :
                          \A y \in hits : x[1] # y[1] \/ x[2] <= y[2]
                 spec == Refspecs(h[1])[h[2]]
                 stem == SubSeq(refname, Len(spec.dst) + 1, Len(refname))
             IN  [ok |-> TRUE,
                  branch |-> [remote |-> h[1],
                              refname |-> spec.src \o stem \o spec.src_tail]]

----------------------------------------------------------------------------
(* The classifier.                                                         *)

\* Ref::from_name
from_name(r, refname) ==
    LET id == peel_to_commit(r, refname)
    IN  [ok |-> id.ok, name |-> refname, commit |-> id.id]

\* accumulate that takes the remotes of `other` in place of its own
accumulate_remotes_replaced(self, other) ==
    [merged_locals |-> self.merged_locals \cup other.merged_locals,
     stray_locals |-> self.stray_locals \cup other.stray_locals,
     merged_remotes |-> other.merged_remotes,
     stray_remotes |-> other.stray_remotes]

\* MergedOrStray::accumulate
accumulate(self, other) ==
    [merged_locals |-> self.merged_locals \cup other.merged_locals,
     stray_locals |-> self.stray_locals \cup other.stray_locals,
     merged_remotes |-> self.merged_remotes \cup other.merged_remotes,
     stray_remotes |-> self.stray_remotes \cup other.stray_remotes]

UpstreamMergeState(upstream, merged) == [upstream |-> upstream, merged |-> merged]

Failed == [ok |-> FALSE, c |-> <<>>]

\* Classification::merged_remote
merged_remote(c, r, upstream) ==
    LET rb == tracking_remote_branch(r, upstream.name)
    IN  IF ~rb.ok THEN Failed
        ELSE [ok |-> TRUE,
              c |-> [c EXCEPT !.result.merged_remotes = @ \cup {rb.branch}]]

\* Classification::stray_remote
stray_remote(c, r, upstream) ==
    LET rb == tracking_remote_branch(r, upstream.name)
    IN  IF ~rb.ok THEN Failed
        ELSE [ok |-> TRUE,
              c |-> [c EXCEPT !.result.stray_remotes = @ \cup {rb.branch}]]

\* merged_or_stray_remote that takes every upstream for merged
merged_or_stray_remote_always_merged(c, r, merge_state) ==
    merged_remote(
        [c EXCEPT !.messages =
            Append(@, "fetch upstream is merged, but forget to delete")],
        r, merge_state.upstream)

\* Classification::merged_or_stray_remote
merged_or_stray_remote(c, r, merge_state) ==
    IF merge_state.merged
    THEN merged_remote(
             [c EXCEPT !.messages =
                 Append(@, "fetch upstream is merged, but forget to delete")],
             r, merge_state.upstream)
    ELSE stray_remote(
             [c EXCEPT !.messages = Append(@, "fetch upstream is not merged")],
             r, merge_state.upstream)

\* upstream_is_exists that asks only whether the remote was queried
upstream_is_exists_key_only(remote_heads_per_url, remote, merge) ==
    remote \in DOMAIN remote_heads_per_url

\* whether the remote still publishes the head the branch merges from
upstream_is_exists(remote_heads_per_url, remote, merge) ==
    /\ remote \in DOMAIN remote_heads_per_url
    /\ merge \in remote_heads_per_url[remote]

\* the match of classify on (fetch, push), for the Classification c
classify_match(c, r, cfg, remote_heads_per_url, refname) ==
    IF c.fetch # {} /\ c.push # {} THEN
        LET fetch == CHOOSE x \in c.fetch : TRUE
            push == CHOOSE x \in c.push : TRUE
        IN  IF c.branch_is_merged THEN
                LET c1 == [c EXCEPT !.messages = Append(@, "local is merged"),
                                    !.result.merged_locals = @ \cup {refname}]
                    c2 == merged_or_stray_remote(c1, r, fetch)
                IN  IF ~c2.ok THEN Failed
                    ELSE merged_or_stray_remote(c2.c, r, push)
            ELSE IF fetch.merged \/ push.merged THEN
                LET c1 == [c EXCEPT
                             !.messages = Append(@,
                                 "some upstreams are merged, but the local strays"),
                             !.result.stray_locals = @ \cup {refname}]
                    c2 == merged_or_stray_remote(c1, r, push)
                IN  IF ~c2.ok THEN Failed
                    ELSE merged_or_stray_remote(c2.c, r, fetch)
            ELSE [ok |-> TRUE, c |-> c]
    ELSE IF c.fetch # {} \/ c.push # {} THEN
        LET upstream == CHOOSE x \in c.fetch \cup c.push : TRUE
        IN  IF c.branch_is_merged THEN
                merged_or_stray_remote(
                    [c EXCEPT !.messages = Append(@, "local is merged"),
                              !.result.merged_locals = @ \cup {refname}],
                    r, upstream)
            ELSE IF upstream.merged THEN
                merged_remote(
                    [c EXCEPT !.messages = Append(@,
                                  "upstream is merged, but the local strays"),
                              !.result.stray_locals = @ \cup {refname}],
                    r, upstream.upstream)
            ELSE [ok |-> TRUE, c |-> c]
    ELSE IF get_remote_raw(cfg, refname) = {} \/ get_merge(cfg, refname) = {}
    THEN Failed  \* expect("should have it if it has an upstream") panics
    ELSE
        LET remote == CHOOSE x \in get_remote_raw(cfg, refname) : TRUE
            merge == CHOOSE x \in get_merge(cfg, refname) : TRUE
            exists == upstream_is_exists(remote_heads_per_url, remote, merge)
        IN  IF exists /\ c.branch_is_merged THEN
                [ok |-> TRUE,
                 c |-> [c EXCEPT
                    !.messages = Append(@,
                        "merged local, merged remote: the branch is merged, but forgot to delete"),
                    !.result.merged_locals = @ \cup {refname},
                    !.result.merged_remotes =
                        @ \cup {[remote |-> remote, refname |-> merge]}]]
            ELSE IF c.branch_is_merged THEN
                [ok |-> TRUE,
                 c |-> [c EXCEPT
                    !.messages = Append(@,
                        "merged local: the branch is merged, and deleted"),
                    !.result.merged_locals = @ \cup {refname}]]
            ELSE IF ~exists THEN
                [ok |-> TRUE,
                 c |-> [c EXCEPT
                    !.messages = Append(@,
                        "the branch is not merged but the remote is gone somehow"),
                    !.result.stray_locals = @ \cup {refname}]]
            ELSE [ok |-> TRUE,
                  c |-> [c EXCEPT !.messages =
                            Append(@, "skip: the branch is alive")]]

\* the merged flag of an upstream: `shortcut` decides it without the
\* oracle, whose error is otherwise the error of the classification
upstream_state(r, base, upstream, shortcut) ==
    IF shortcut THEN [ok |-> TRUE, state |-> UpstreamMergeState(upstream, TRUE)]
    ELSE LET merged == is_merged(r, base, upstream.name)
         IN  [ok |-> merged.ok,
              state |-> UpstreamMergeState(upstream, merged.value)]

classify(r, cfg, merged_locals, remote_heads_per_url, base, refname) ==
    LET branch == from_name(r, refname)
        oracle == IF refname \in merged_locals THEN [ok |-> TRUE, value |-> TRUE]
                  ELSE is_merged(r, base, refname)
        branch_is_merged == oracle.value
        fetch_refs == get_fetch_upstream(r, cfg, refname)
        fetch_up == {from_name(r, f) : f \in fetch_refs}
        fetch == {upstream_state(r, base, u,
                      branch_is_merged /\ u.commit = branch.commit) :
                    u \in fetch_up}
        push_refs == get_push_upstream(r, cfg, refname)
        push_up == {from_name(r, f) : f \in push_refs}
        push == {upstream_state(r, base, u,
                     \/ branch_is_merged /\ u.commit = branch.commit
                     \/ \E x \in fetch :
                           x.state.merged /\ u.commit = x.state.upstream.commit) :
                   u \in push_up}
        c == [branch |-> [name |-> branch.name, commit |-> branch.commit],
              branch_is_merged |-> branch_is_merged,
              fetch |-> {x.state : x \in fetch},
              push |-> {x.state : x \in push},
              messages |-> <<>>,
              result |-> EmptyMergedOrStray]
    IN  IF ~branch.ok \/ ~oracle.ok THEN Failed
        ELSE IF \E u \in fetch_up : ~u.ok THEN Failed
        ELSE IF \E x \in fetch : ~x.ok THEN Failed
        ELSE IF \E u \in push_up : ~u.ok THEN Failed
        ELSE IF \E x \in push : ~x.ok THEN Failed
        ELSE classify_match(c, r, cfg, remote_heads_per_url, refname)

----------------------------------------------------------------------------
(* The guards of MergedOrStrayAndKeptBacks.                                *)

\* keep_branches that skips a candidate whose reference is missing
keep_branches_skip_missing(r, protected, reason, references) ==
    LET bag == {refname \in references :
                    /\ find_reference(r, refname).ok
                    /\ find_reference(r, refname).name \in protected}
    IN  [ok |-> TRUE, kept_back |-> AllTo(bag, reason),
         references |-> references \ bag]

keep_branches(r, protected, reason, references) ==
    IF \E refname \in references : ~find_reference(r, refname).ok
    THEN [ok |-> FALSE, kept_back |-> EmptyMap, references |-> references]
    ELSE LET bag == {find_reference(r, refname).name :
                        refname \in {n \in references :
                            find_reference(r, n).name \in protected}}
         IN  [ok |-> TRUE, kept_back |-> AllTo(bag, reason),
              references |-> references \ bag]

\* keep_remote_branches that matches on the remote branch's own refname
keep_remote_branches_by_refname(r, protected, reason, remote_branches) ==
    LET kept == {remote_branch \in remote_branches :
                    remote_branch.refname \in protected}
    IN  [ok |-> TRUE, kept_back |-> AllTo(kept, reason),
         references |-> remote_branches \ kept]

keep_remote_branches(r, protected, reason, remote_branches) ==
    LET kept == {remote_branch \in remote_branches :
                    \E remote_tracking \in from_remote_branch(r, remote_branch) :
                        remote_tracking \in protected}
    IN  [ok |-> TRUE, kept_back |-> AllTo(kept, reason),
         references |-> remote_branches \ kept]

\* The body shared by keep_base and keep_protected: four calls in sequence,
\* each `?` returning early with what the earlier calls already changed.
keep_refs(self, r, refs, message) ==
    LET k1 == keep_branches(r, refs, Reason("MergedLocal", message),
                            self.to_delete.merged_locals)
        s1 == [self EXCEPT !.to_delete.merged_locals = k1.references,
                           !.kept_backs = Extend(@, k1.kept_back)]
        k2 == keep_branches(r, refs, Reason("StrayLocal", message),
                            s1.to_delete.stray_locals)
        s2 == [s1 EXCEPT !.to_delete.stray_locals = k2.references,
                         !.kept_backs = Extend(@, k2.kept_back)]
        k3 == keep_remote_branches(r, refs, Reason("MergedRemote", message),
                                   s2.to_delete.merged_remotes)
        s3 == [s2 EXCEPT !.to_delete.merged_remotes = k3.references,
                         !.kept_back_remotes = Extend(@, k3.kept_back)]
        k4 == keep_remote_branches(r, refs, Reason("StrayRemote", message),
                                   s3.to_delete.stray_remotes)
        s4 == [s3 EXCEPT !.to_delete.stray_remotes = k4.references,
                         !.kept_back_remotes = Extend(@, k4.kept_back)]
    IN  IF ~k1.ok THEN Err(self)
        ELSE IF ~k2.ok THEN Err(s1)
        ELSE IF ~k3.ok THEN Err(s2)
        ELSE IF ~k4.ok THEN Err(s3)
        ELSE Ok(s4)

keep_base(self, r, refs) == keep_refs(self, r, refs, "a base branch")

keep_protected(self, r, refs) == keep_refs(self, r, refs, "a protected branch")

\* keep_non_heads_remotes that forgets the stray remotes
keep_non_heads_remotes_merged_only(self) ==
    LET merged_remotes ==
            {remote_branch \in self.to_delete.merged_remotes :
                starts_with(remote_branch.refname, <<"refs", "heads">>)}
    IN  [self EXCEPT
            !.kept_back_remotes =
                Extend(@, AllTo(self.to_delete.merged_remotes \ merged_remotes,
                                Reason("MergedRemote", "a non-heads remote branch"))),
            !.to_delete.merged_remotes = merged_remotes]

\* keep_non_heads_remotes that drops the non-heads remotes unrecorded
keep_non_heads_remotes_unrecorded(self) ==
    [self EXCEPT
        !.to_delete.merged_remotes =
            {remote_branch \in @ :
                starts_with(remote_branch.refname, <<"refs", "heads">>)},
        !.to_delete.stray_remotes =
            {remote_branch \in @ :
                starts_with(remote_branch.refname, <<"refs", "heads">>)}]

keep_non_heads_remotes(self) ==
    LET heads(remote_branches) ==
            {remote_branch \in remote_branches :
                starts_with(remote_branch.refname, <<"refs", "heads">>)}
        merged_remotes == heads(self.to_delete.merged_remotes)
        s1 == [self EXCEPT
                !.kept_back_remotes =
                    Extend(@, AllTo(self.to_delete.merged_remotes \ merged_remotes,
                                    Reason("MergedRemote", "a non-heads remote branch"))),
                !.to_delete.merged_remotes = merged_remotes]
        stray_remotes == heads(s1.to_delete.stray_remotes)
    IN  [s1 EXCEPT
            !.kept_back_remotes =
                Extend(@, AllTo(s1.to_delete.stray_remotes \ stray_remotes,
                                Reason("StrayRemote", "a non-heads remote branch"))),
            !.to_delete.stray_remotes = stray_remotes]

\* DeleteFilter's four predicates
filter_merged_local(f) == f.merged_local
filter_stray_local(f) == f.stray_local
filter_merged_remote(f, remote) == remote \in f.merged_remote
filter_stray_remote(f, remote) == remote \in f.stray_remote

\* apply_filter that records the merged remotes out of scope and leaves
\* them to delete
apply_filter_record_only(self, f) ==
    Ok([self EXCEPT
          !.kept_back_remotes =
              Extend(@, AllTo({remote_branch \in self.to_delete.merged_remotes :
                                  ~filter_merged_remote(f, remote_branch.remote)},
                              Reason("MergedRemote", "out of filter scope")))])

apply_filter(self, f) ==
    LET s1 == IF ~filter_merged_local(f)
              THEN [self EXCEPT
                      !.kept_backs =
                          Extend(@, AllTo(self.to_delete.merged_locals,
                                          Reason("MergedLocal", "out of filter scope"))),
                      !.to_delete.merged_locals = {}]
              ELSE self
        s2 == IF ~filter_stray_local(f)
              THEN [s1 EXCEPT
                      !.kept_backs =
                          Extend(@, AllTo(s1.to_delete.stray_locals,
                                          Reason("StrayLocal", "out of filter scope"))),
                      !.to_delete.stray_locals = {}]
              ELSE s1
        merged_remotes == {remote_branch \in s2.to_delete.merged_remotes :
                              filter_merged_remote(f, remote_branch.remote)}
        s3 == [s2 EXCEPT
                !.kept_back_remotes =
                    Extend(@, AllTo(s2.to_delete.merged_remotes \ merged_remotes,
                                    Reason("MergedRemote", "out of filter scope"))),
                !.to_delete.merged_remotes = merged_remotes]
        stray_remotes == {remote_branch \in s3.to_delete.stray_remotes :
                             filter_stray_remote(f, remote_branch.remote)}
        s4 == [s3 EXCEPT
                !.kept_back_remotes =
                    Extend(@, AllTo(s3.to_delete.stray_remotes \ stray_remotes,
                                    Reason("StrayRemote", "out of filter scope"))),
                !.to_delete.stray_remotes = stray_remotes]
    IN  Ok(s4)

\* adjust_not_to_detach whose second test is an `else if`
adjust_not_to_detach_else_if(self, r) ==
    IF r.head.detached THEN Ok(self)
    ELSE IF ~head(r).ok THEN Err(self)
    ELSE
        LET head_name == head(r).name
        IN  IF head_name \in self.to_delete.merged_locals
            THEN Ok([self EXCEPT
                      !.to_delete.merged_locals = @ \ {head_name},
                      !.kept_backs =
                          Extend(@, AllTo({head_name},
                              Reason("MergedLocal", "not to make detached HEAD")))])
            ELSE IF head_name \in self.to_delete.stray_locals
            THEN Ok([self EXCEPT
                      !.to_delete.stray_locals = @ \ {head_name},
                      !.kept_backs =
                          Extend(@, AllTo({head_name},
                              Reason("StrayLocal", "not to make detached HEAD")))])
            ELSE Ok(self)

\* adjust_not_to_detach that looks at the merged locals only
adjust_not_to_detach_merged_only(self, r) ==
    IF r.head.detached THEN Ok(self)
    ELSE IF ~head(r).ok THEN Err(self)
    ELSE
        LET head_name == head(r).name
        IN  IF head_name \in self.to_delete.merged_locals
            THEN Ok([self EXCEPT
                      !.to_delete.merged_locals = @ \ {head_name},
                      !.kept_backs =
                          Extend(@, AllTo({head_name},
                              Reason("MergedLocal", "not to make detached HEAD")))])
            ELSE Ok(self)

\* adjust_not_to_detach that records the HEAD branch and leaves it to delete
adjust_not_to_detach_record_only(self, r) ==
    IF r.head.detached THEN Ok(self)
    ELSE IF ~head(r).ok THEN Err(self)
    ELSE
        LET head_name == head(r).name
        IN  IF head_name \in self.to_delete.merged_locals \cup self.to_delete.stray_locals
            THEN Ok([self EXCEPT
                      !.kept_backs =
                          Extend(@, AllTo({head_name},
                              Reason("MergedLocal", "not to make detached HEAD")))])
            ELSE Ok(self)

adjust_not_to_detach(self, r) ==
    IF r.head.detached THEN Ok(self)
    ELSE IF ~head(r).ok THEN Err(self)
    ELSE
        LET head_name == head(r).name
            s1 == IF head_name \in self.to_delete.merged_locals
                  THEN [self EXCEPT
                          !.to_delete.merged_locals = @ \ {head_name},
                          !.kept_backs =
                              Extend(@, AllTo({head_name},
                                  Reason("MergedLocal", "not to make detached HEAD")))]
                  ELSE self
            s2 == IF head_name \in s1.to_delete.stray_locals
                  THEN [s1 EXCEPT
                          !.to_delete.stray_locals = @ \ {head_name},
                          !.kept_backs =
                              Extend(@, AllTo({head_name},
                                  Reason("StrayLocal", "not to make detached HEAD")))]
                  ELSE s1
        IN  Ok(s2)

----------------------------------------------------------------------------
(* The planner: the guards applied in order to a starting plan.            *)

NoRefs == {}

NoFilter == [merged_local |-> TRUE, stray_local |-> TRUE,
             merged_remote |-> {}, stray_remote |-> {}]

Filters == [merged_local : BOOLEAN, stray_local : BOOLEAN,
            merged_remote : SUBSET Remotes, stray_remote : SUBSET Remotes]

\* the argument sets keep_base and keep_protected are called with
KeepRefSets == {s \in SUBSET AllRefs : Cardinality(s) <= MaxKeepRefs}

\* HEAD is detached, or names a local branch (unborn when the ref is absent)
Heads == {[detached |-> TRUE, name |-> <<>>]}
            \cup {[detached |-> FALSE, name |-> n] : n \in LocalRefs}

\* the remote-tracking refs exist; some local candidates may name no reference
Repos == {[commits |-> <<RootCommit>>,
           target |-> [n \in AllRefs \ missing |-> 1], head |-> h] :
            missing \in {m \in SUBSET LocalRefs : Cardinality(m) <= MaxMissing},
            h \in Heads}

\* the four to-delete sets a set of (set name, candidate) entries denotes
PlanOf(entries) ==
    [to_delete |->
        [merged_locals |-> {e[2] : e \in {x \in entries : x[1] = "merged_locals"}},
         stray_locals |-> {e[2] : e \in {x \in entries : x[1] = "stray_locals"}},
         merged_remotes |-> {e[2] : e \in {x \in entries : x[1] = "merged_remotes"}},
         stray_remotes |-> {e[2] : e \in {x \in entries : x[1] = "stray_remotes"}}],
     kept_backs |-> EmptyMap,
     kept_back_remotes |-> EmptyMap]

Entries == ({"merged_locals", "stray_locals"} \X LocalRefs)
              \cup ({"merged_remotes", "stray_remotes"} \X RemoteBranches)

StartingPlans ==
    {PlanOf(entries) :
        entries \in {s \in SUBSET Entries : Cardinality(s) <= MaxCandidates}}

\* nothing to classify
NoClassifier ==
    /\ config = EmptyMap
    /\ merged_hint = {}
    /\ remote_heads = EmptyMap
    /\ classifications = EmptyMap
    /\ accumulated = {}
    /\ merged_or_stray = EmptyMergedOrStray

Init ==
    /\ NoClassifier
    /\ repo \in Repos
    /\ plan \in StartingPlans
    /\ base_refs = NoRefs
    /\ protected_refs = NoRefs
    /\ filter = NoFilter
    /\ answer = {}
    /\ pc = "keep_base"
    /\ error = FALSE

\* where the planner goes after a guard returned `res`
Step(res, next) ==
    /\ plan' = res.plan
    /\ error' = ~res.ok
    /\ pc' = IF res.ok THEN next ELSE pc

KeepBase ==
    /\ pc = "keep_base" /\ ~error
    /\ \E refs \in KeepRefSets :
        /\ base_refs' = refs
        /\ Step(keep_base(plan, repo, refs), "keep_protected")
    /\ UNCHANGED <<repo, protected_refs, filter, answer, classifierVars>>

KeepProtected ==
    /\ pc = "keep_protected" /\ ~error
    /\ \E refs \in KeepRefSets :
        /\ protected_refs' = refs
        /\ Step(keep_protected(plan, repo, refs), "keep_non_heads_remotes")
    /\ UNCHANGED <<repo, base_refs, filter, answer, classifierVars>>

KeepNonHeadsRemotes ==
    /\ pc = "keep_non_heads_remotes" /\ ~error
    /\ Step(Ok(keep_non_heads_remotes(plan)), "apply_filter")
    /\ UNCHANGED <<repo, base_refs, protected_refs, filter, answer, classifierVars>>

ApplyFilter ==
    /\ pc = "apply_filter" /\ ~error
    /\ \E f \in Filters :
        /\ filter' = f
        /\ Step(apply_filter(plan, f), "adjust_not_to_detach")
    /\ UNCHANGED <<repo, base_refs, protected_refs, answer, classifierVars>>

AdjustNotToDetach ==
    /\ pc = "adjust_not_to_detach" /\ ~error
    /\ Step(adjust_not_to_detach(plan, repo), "done")
    /\ UNCHANGED <<repo, base_refs, protected_refs, filter, answer, classifierVars>>

Next ==
    \/ KeepBase
    \/ KeepProtected
    \/ KeepNonHeadsRemotes
    \/ ApplyFilter
    \/ AdjustNotToDetach

Spec == Init /\ [][Next]_vars

\* The guards in the planner's order, each `?` ending the run.
trim_plan_guards(self, r, base, protected, f) ==
    LET g1 == keep_base(self, r, base)
        g2 == keep_protected(g1.plan, r, protected)
        g3 == keep_non_heads_remotes(g2.plan)
        g4 == apply_filter(g3, f)
        g5 == adjust_not_to_detach(g4.plan, r)
    IN  IF ~g1.ok THEN g1
        ELSE IF ~g2.ok THEN g2
        ELSE IF ~g4.ok THEN g4
        ELSE g5

----------------------------------------------------------------------------
(* The merge oracle alone: is_merged(base, candidate) on every object      *)
(* store of MaxCommits commits.                                            *)

BaseRef == <<"refs", "remotes", "origin", "main">>

Files == 1..MaxFiles

\* every store in which a commit's parent, if any, was written before it
Stores ==
    {commits \in [1..MaxCommits -> [parent : 0..(MaxCommits - 1), tree : SUBSET Files]] :
        \A c \in 1..MaxCommits : commits[c].parent < c}

Candidate == <<"refs", "heads", "a">>

OracleInit ==
    /\ \E commits \in Stores, base_id \in 1..MaxCommits, other_id \in 1..MaxCommits :
          repo = [commits |-> commits,
                  target |-> (BaseRef :> base_id) @@ (Candidate :> other_id),
                  head |-> [detached |-> TRUE, name |-> <<>>]]
    /\ NoClassifier
    /\ plan = PlanOf({})
    /\ base_refs = NoRefs
    /\ protected_refs = NoRefs
    /\ filter = NoFilter
    /\ answer = {}
    /\ pc = "is_merged"
    /\ error = FALSE

IsMerged ==
    /\ pc = "is_merged"
    /\ answer' = {is_merged(repo, BaseRef, Candidate)}
    /\ pc' = "done"
    /\ UNCHANGED <<repo, plan, base_refs, protected_refs, filter, error, classifierVars>>

OracleNext == IsMerged

SpecOracle == OracleInit /\ [][OracleNext]_vars

----------------------------------------------------------------------------
(* The classifier on the branches of one repository.                       *)

\*      1 -- 2            refs/remotes/origin/main, a squash of 3 and 4
\*      |\
\*      | 3 -- 4          4: merged by the squash 2;  3: not merged
\*      5                 not merged
\*      6                 an unrelated history
ScenarioCommits ==
    <<Commit(0, {}), Commit(1, {1, 2}), Commit(1, {1}), Commit(3, {1, 2}),
      Commit(1, {2}), Commit(0, {1})>>

BaseCommit == 2

Url == "https://example.com/repo.git"

\* refnames a branch may merge from or push to; the last has no
\* remote-tracking ref
RemoteRefnames ==
    {<<"refs", "heads", "a">>, <<"refs", "pull", "1", "head">>,
     <<"refs", "heads", "gone">>}

BranchConfigs ==
    [remote : Remotes \cup {Url}, merge : RemoteRefnames,
     push : {{}} \cup {{p} : p \in RemoteRefnames}]

Detached == [detached |-> TRUE, name |-> <<>>]

\* a repository whose refs name the commits `at` gives them
ScenarioRepo(at, h) ==
    [commits |-> ScenarioCommits, target |-> (BaseRef :> BaseCommit) @@ at,
     head |-> h]

ClassifyInit ==
    /\ \E at \in [{Candidate} \cup TrackingRefs -> {1, 3, 4, 5, 6}] :
          repo = ScenarioRepo(at, Detached)
    /\ config \in [{Candidate} -> BranchConfigs]
    /\ merged_hint \in SUBSET {Candidate}
    /\ remote_heads \in
          {EmptyMap} \cup {Url :> heads : heads \in SUBSET {<<"refs", "heads", "a">>}}
    /\ classifications = EmptyMap
    /\ accumulated = {}
    /\ merged_or_stray = EmptyMergedOrStray
    /\ plan = PlanOf({})
    /\ base_refs = NoRefs
    /\ protected_refs = NoRefs
    /\ filter = NoFilter
    /\ answer = {}
    /\ pc = "classify"
    /\ error = FALSE

Classify(refname) ==
    /\ pc = "classify" /\ ~error
    /\ refname \in DOMAIN config \ DOMAIN classifications
    /\ LET res == classify(repo, config, merged_hint, remote_heads,
                           BaseRef, refname)
       IN  /\ error' = ~res.ok
           /\ classifications' =
                 IF res.ok THEN classifications @@ (refname :> res.c)
                 ELSE classifications
    /\ UNCHANGED <<repo, plan, base_refs, protected_refs, filter, answer, pc,
                   config, merged_hint, remote_heads, accumulated,
                   merged_or_stray>>

ClassifyNext == \E refname \in LocalRefs : Classify(refname)

SpecClassify == ClassifyInit /\ [][ClassifyNext]_vars

----------------------------------------------------------------------------
(* The whole planner: every candidate branch is classified, the results    *)
(* are accumulated as they come, and the guards run on the sum.            *)

\* the upstream configurations of the planner runs: a fetch upstream that
\* resolves or not, with or without a push upstream on the pull ref, or the
\* URL remote of a hub-cli checkout
PlanBranchConfigs ==
    [remote : Remotes,
     merge : {<<"refs", "heads", "a">>, <<"refs", "heads", "gone">>},
     push : {{}, {<<"refs", "pull", "1", "head">>}}]
    \cup [remote : Remotes, merge : {<<"refs", "pull", "1", "head">>}, push : {{}}]
    \cup [remote : {Url}, merge : {<<"refs", "heads", "a">>}, push : {{}}]

PullTrackingRef == <<"refs", "remotes", "origin", "pr", "1">>

PlanInit ==
    /\ \E at \in [(LocalRefs \cup TrackingRefs) \ {PullTrackingRef} -> {4, 5}],
          h \in {Detached, [detached |-> FALSE, name |-> Candidate]} :
          repo = ScenarioRepo((PullTrackingRef :> 4) @@ at, h)
    /\ \E cs \in PlanBranchConfigs \X PlanBranchConfigs :
          config = (<<"refs", "heads", "a">> :> cs[1]) @@ (<<"refs", "heads", "b">> :> cs[2])
    /\ merged_hint \in SUBSET LocalRefs
    /\ remote_heads = (Url :> {<<"refs", "heads", "a">>})
    /\ classifications = EmptyMap
    /\ accumulated = {}
    /\ merged_or_stray = EmptyMergedOrStray
    /\ plan = PlanOf({})
    /\ base_refs = NoRefs
    /\ protected_refs = NoRefs
    /\ filter = NoFilter
    /\ answer = {}
    /\ pc = "classify"
    /\ error = FALSE

Accumulate(refname) ==
    /\ pc = "classify" /\ ~error
    /\ refname \in DOMAIN classifications \ accumulated
    /\ merged_or_stray' = accumulate(merged_or_stray, classifications[refname].result)
    /\ accumulated' = accumulated \cup {refname}
    /\ UNCHANGED <<repo, plan, base_refs, protected_refs, filter, answer, pc,
                   error, config, merged_hint, remote_heads,
                   classifications>>

\* the guards, run in the planner's order on the accumulated candidates
\* with the base branch as base_refs, each `?` ending the run
TrimPlan ==
    /\ pc = "classify" /\ ~error
    /\ accumulated = DOMAIN config
    /\ \E refs \in KeepRefSets, f \in Filters :
       \E g1 \in {keep_base([to_delete |-> merged_or_stray, kept_backs |-> EmptyMap,
                              kept_back_remotes |-> EmptyMap], repo, {BaseRef})} :
       \E g2 \in {keep_protected(g1.plan, repo, refs)} :
       \E g3 \in {keep_non_heads_remotes(g2.plan)} :
       \E g4 \in {apply_filter(g3, f)} :
       \E g5 \in {adjust_not_to_detach(g4.plan, repo)} :
       \E res \in {IF ~g1.ok THEN g1 ELSE IF ~g2.ok THEN g2
                    ELSE IF ~g4.ok THEN g4 ELSE g5} :
          /\ base_refs' = {BaseRef}
          /\ protected_refs' = refs
          /\ filter' = f
          /\ plan' = res.plan
          /\ error' = ~res.ok
          /\ pc' = "done"
    /\ UNCHANGED <<repo, answer, classifierVars>>

PlanNext ==
    \/ \E refname \in LocalRefs : Classify(refname)
    \/ \E refname \in LocalRefs : Accumulate(refname)
    \/ TrimPlan

SpecPlan == PlanInit /\ [][PlanNext]_vars

----------------------------------------------------------------------------
(* Claims about the guards, checked under Spec.                            *)

AfterKeepProtected ==
    {"keep_non_heads_remotes", "apply_filter", "adjust_not_to_detach", "done"}

AfterKeepNonHeadsRemotes == {"apply_filter", "adjust_not_to_detach", "done"}

ToDeleteLocals == plan.to_delete.merged_locals \cup plan.to_delete.stray_locals

ToDeleteRemotes == plan.to_delete.merged_remotes \cup plan.to_delete.stray_remotes

NonHeadsMessage == "a non-heads remote branch"

\* C1: once keep_base and keep_protected have run, and through every later
\* guard, no local refname of base_refs \cup protected_refs is left in
\* merged_locals or stray_locals, and no remote branch whose remote-tracking
\* refname is in base_refs \cup protected_refs is left in merged_remotes or
\* stray_remotes.
C1_KeptRefsNotToDelete ==
    pc \in AfterKeepProtected =>
        /\ ToDeleteLocals \cap (base_refs \cup protected_refs) = {}
        /\ \A remote_branch \in ToDeleteRemotes :
              from_remote_branch(repo, remote_branch)
                  \cap (base_refs \cup protected_refs) = {}

\* a finished plan in which a base ref was kept back as a local and a
\* protected ref as a remote
C1_Witness ==
    /\ pc = "done"
    /\ \E n \in base_refs :
          /\ n \in DOMAIN plan.kept_backs
          /\ plan.kept_backs[n].message = "a base branch"
    /\ \E remote_branch \in DOMAIN plan.kept_back_remotes :
          /\ plan.kept_back_remotes[remote_branch].message = "a protected branch"
          /\ from_remote_branch(repo, remote_branch) \cap protected_refs # {}

\* C2: when HEAD is on a branch, the plan the guard pipeline ends with has
\* the HEAD branch in neither merged_locals nor stray_locals.
C2_HeadNotToDelete ==
    (pc = "done" /\ ~repo.head.detached) => repo.head.name \notin ToDeleteLocals

\* a finished plan whose HEAD branch was a candidate and was kept back by
\* the detached-head guard
C2_Witness ==
    /\ pc = "done"
    /\ ~repo.head.detached
    /\ repo.head.name \in DOMAIN plan.kept_backs
    /\ plan.kept_backs[repo.head.name].message = "not to make detached HEAD"

non_heads(remote_branches) ==
    {remote_branch \in remote_branches :
        ~starts_with(remote_branch.refname, <<"refs", "heads">>)}

C3_OnlyHeadsRemain ==
    pc \in AfterKeepNonHeadsRemotes => non_heads(ToDeleteRemotes) = {}

C3_RemovedAreKeptBack ==
    /\ (pc = "keep_non_heads_remotes" /\ pc' = "apply_filter") =>
          \A remote_branch \in non_heads(ToDeleteRemotes) :
              /\ remote_branch \in DOMAIN plan'.kept_back_remotes
              /\ plan'.kept_back_remotes[remote_branch].message = NonHeadsMessage
    /\ pc \in AfterKeepNonHeadsRemotes =>
          \A remote_branch \in DOMAIN plan.kept_back_remotes :
              plan.kept_back_remotes[remote_branch].message = NonHeadsMessage =>
                  /\ remote_branch \in DOMAIN plan'.kept_back_remotes
                  /\ plan'.kept_back_remotes[remote_branch].message = NonHeadsMessage

\* C3: after keep_non_heads_remotes, and after the later guards, every
\* remote branch left in merged_remotes or stray_remotes has a refname under
\* refs/heads/; every one the guard removed is in kept_back_remotes with the
\* message "a non-heads remote branch", and stays there with that message.
C3_NonHeadsRemotesKept ==
    []C3_OnlyHeadsRemain /\ [][C3_RemovedAreKeptBack]_vars

\* a finished plan with a non-heads remote branch kept back by the guard
C3_Witness ==
    /\ pc = "done"
    /\ \E remote_branch \in DOMAIN plan.kept_back_remotes :
          /\ ~starts_with(remote_branch.refname, <<"refs", "heads">>)
          /\ plan.kept_back_remotes[remote_branch].message = NonHeadsMessage

\* C6: every guard is idempotent: applied a second time with the same
\* inputs to the plan it produced it succeeds and changes nothing; and the
\* whole guard pipeline run again on its own output plan returns that plan.
C6_GuardsIdempotent ==
    ~error =>
        /\ pc = "keep_protected" => keep_base(plan, repo, base_refs) = Ok(plan)
        /\ pc = "keep_non_heads_remotes" =>
              keep_protected(plan, repo, protected_refs) = Ok(plan)
        /\ pc = "apply_filter" => keep_non_heads_remotes(plan) = plan
        /\ pc = "adjust_not_to_detach" => apply_filter(plan, filter) = Ok(plan)
        /\ pc = "done" =>
              /\ adjust_not_to_detach(plan, repo) = Ok(plan)
              /\ trim_plan_guards(plan, repo, base_refs, protected_refs, filter)
                    = Ok(plan)

\* a finished plan in which the filter kept back a local candidate and an
\* earlier guard a remote candidate
C6_Witness ==
    /\ pc = "done"
    /\ \E n \in DOMAIN plan.kept_backs :
          plan.kept_backs[n].message = "out of filter scope"
    /\ \E remote_branch \in DOMAIN plan.kept_back_remotes :
          plan.kept_back_remotes[remote_branch].message # "out of filter scope"

MissingLocalCandidates == {n \in ToDeleteLocals : n \notin DOMAIN repo.target}

\* C8 as stated: only adjust_not_to_detach returns an error, and no guard
\* fails after having changed the plan.
C8_OnlyDetachCheckFails ==
    [][error' => (pc' = "adjust_not_to_detach" /\ plan' = plan)]_vars

\* C8, amended: keep_non_heads_remotes and apply_filter always succeed;
\* adjust_not_to_detach can fail and then leaves the plan as it was;
\* keep_base and keep_protected fail too, whenever a local candidate of
\* to_delete names no reference of the repository.
C8_WhichGuardsFail ==
    [][/\ pc \in {"keep_non_heads_remotes", "apply_filter"} => ~error'
       /\ (pc = "adjust_not_to_detach" /\ error') => plan' = plan
       /\ (pc \in {"keep_base", "keep_protected"} /\ MissingLocalCandidates # {})
             => error']_vars

\* keep_base failed on a stray local after keeping back a merged local
C8_Witness ==
    /\ error
    /\ pc = "keep_base"
    /\ DOMAIN plan.kept_backs # {}
    /\ MissingLocalCandidates # {}

----------------------------------------------------------------------------
(* Claims about the merge oracle, checked under SpecOracle.                *)

BaseId == repo.target[BaseRef]

CandidateId == repo.target[Candidate]

\* C7: is_merged(base, candidate) returns true when candidate is an
\* ancestor of base; otherwise false, a normal result, when the two have no
\* merge base; otherwise whether the synthetic commit (candidate's tree,
\* single parent the merge base) is an ancestor of base.
C7_IsMergedResult ==
    \A result \in answer :
        IF is_merged_by_rev_list(repo.commits, BaseId, CandidateId)
        THEN result = [ok |-> TRUE, value |-> TRUE]
        ELSE IF ~merge_base(repo, BaseId, CandidateId).ok
        THEN result = [ok |-> TRUE, value |-> FALSE]
        ELSE result = [ok |-> TRUE,
                       value |-> is_squash_merged(repo,
                                     merge_base(repo, BaseId, CandidateId).id,
                                     BaseId, CandidateId)]

----------------------------------------------------------------------------
(* Claims about the classifier, checked under SpecClassify.                *)

\* the RemoteBranch a present upstream is emitted as
EmittedAs(state) == tracking_remote_branch(repo, state.upstream.name).branch

\* C9: when the fetch or the push upstream of a branch resolves, the result
\* of classify follows the dispatch table.  A merged branch is emitted as a
\* merged local, and each present upstream as a merged remote if its own
\* merged flag is set, as a stray remote otherwise.  A branch that is not
\* merged, with a present upstream that is merged, is emitted as a stray
\* local and each present upstream by its own flag.  A branch that is not
\* merged, with no present upstream merged, leaves all four sets empty.
C9_DispatchTable ==
    \A refname \in DOMAIN classifications :
        LET c == classifications[refname]
            present == c.fetch \cup c.push
            remotes == [EmptyMergedOrStray EXCEPT
                          !.merged_remotes =
                              {EmittedAs(u) : u \in {x \in present : x.merged}},
                          !.stray_remotes =
                              {EmittedAs(u) : u \in {x \in present : ~x.merged}}]
        IN  present # {} =>
                c.result =
                    IF c.branch_is_merged
                    THEN [remotes EXCEPT !.merged_locals = {refname}]
                    ELSE IF \E u \in present : u.merged
                    THEN [remotes EXCEPT !.stray_locals = {refname}]
                    ELSE EmptyMergedOrStray

\* a branch that is not merged, whose fetch upstream is merged and whose
\* push upstream is not
C9_Witness ==
    \E refname \in DOMAIN classifications :
        LET c == classifications[refname]
        IN  /\ ~c.branch_is_merged
            /\ \E u \in c.fetch : u.merged
            /\ \E u \in c.push : ~u.merged
            /\ c.result.stray_locals = {refname}
            /\ c.result.merged_remotes # {}
            /\ c.result.stray_remotes # {}

\* C10: when neither upstream resolves and the branch is configured with a
\* raw remote and merge refname: a merged branch whose head the remote
\* publishes is emitted as a merged local together with the merged
\* RemoteBranch (remote, refname); a merged branch whose head is absent as a
\* merged local only; a branch that is not merged and whose head is absent
\* as a stray local only; a branch that is not merged and whose head is
\* present is not emitted.
C10_NoUpstreamTable ==
    \A refname \in DOMAIN classifications :
        LET c == classifications[refname]
            remote == config[refname].remote
            merge == config[refname].merge
            present == /\ remote \in DOMAIN remote_heads
                       /\ merge \in remote_heads[remote]
        IN  (c.fetch = {} /\ c.push = {}) =>
                c.result =
                    IF c.branch_is_merged /\ present
                    THEN [EmptyMergedOrStray EXCEPT
                            !.merged_locals = {refname},
                            !.merged_remotes =
                                {[remote |-> remote, refname |-> merge]}]
                    ELSE IF c.branch_is_merged
                    THEN [EmptyMergedOrStray EXCEPT !.merged_locals = {refname}]
                    ELSE IF ~present
                    THEN [EmptyMergedOrStray EXCEPT !.stray_locals = {refname}]
                    ELSE EmptyMergedOrStray

\* a merged branch of a URL remote that was queried and no longer publishes
\* the head
C10_Witness ==
    \E refname \in DOMAIN classifications :
        LET c == classifications[refname]
        IN  /\ c.fetch = {} /\ c.push = {}
            /\ c.branch_is_merged
            /\ config[refname].remote = Url
            /\ Url \in DOMAIN remote_heads
            /\ config[refname].merge \notin remote_heads[Url]
            /\ c.result.merged_locals = {refname}
            /\ c.result.merged_remotes = {}

----------------------------------------------------------------------------
(* Claims about the whole planner, checked under SpecPlan.                 *)

PlanRemotes ==
    RemoteBranches \cup {[remote |-> Url, refname |-> <<"refs", "heads", "a">>]}

\* in how many of the three places a remote candidate is
PlacesOfRemote(rb) ==
    Cardinality({i \in 1..3 :
        \/ i = 1 /\ rb \in plan.to_delete.merged_remotes
        \/ i = 2 /\ rb \in plan.to_delete.stray_remotes
        \/ i = 3 /\ rb \in DOMAIN plan.kept_back_remotes})

\* every branch of merged_hint is merged by the oracle too
SoundHint ==
    \A refname \in merged_hint :
        is_merged(repo, BaseRef, refname) = [ok |-> TRUE, value |-> TRUE]

\* C4: in the plan built by accumulating the classifications of the
\* branches, whatever upstreams they share and whatever merged_hint is, and
\* applying the guards, every remote candidate is in at most one of
\* to_delete.merged_remotes, to_delete.stray_remotes and the keys of
\* kept_back_remotes.
C4_RemoteInOnePlace ==
    pc = "done" => \A rb \in PlanRemotes : PlacesOfRemote(rb) <= 1

\* C4, amended: the same, for a merged_hint that holds only branches the
\* oracle finds merged.
C4_RemoteInOnePlaceSoundHint ==
    (pc = "done" /\ SoundHint) => \A rb \in PlanRemotes : PlacesOfRemote(rb) <= 1

\* two branches on different commits share the upstream refs/heads/a of
\* origin, one of them is in a sound merged_hint, and the shared remote is
\* a candidate of the final plan
C4_Witness ==
    /\ pc = "done"
    /\ SoundHint
    /\ merged_hint # {}
    /\ \A refname \in LocalRefs :
          /\ config[refname].remote = "origin"
          /\ config[refname].merge = <<"refs", "heads", "a">>
    /\ repo.target[<<"refs", "heads", "a">>] # repo.target[<<"refs", "heads", "b">>]
    /\ PlacesOfRemote([remote |-> "origin", refname |-> <<"refs", "heads", "a">>]) = 1

\* in how many of the three places a local branch is
PlacesOfLocal(refname) ==
    Cardinality({i \in 1..3 :
        \/ i = 1 /\ refname \in plan.to_delete.merged_locals
        \/ i = 2 /\ refname \in plan.to_delete.stray_locals
        \/ i = 3 /\ refname \in DOMAIN plan.kept_backs})

\* C5: after classification and accumulation no local branch is both a
\* merged and a stray local, and after all guards every local branch is in
\* at most one of to_delete.merged_locals, to_delete.stray_locals and the
\* keys of kept_backs.
C5_LocalInOnePlace ==
    /\ merged_or_stray.merged_locals \cap merged_or_stray.stray_locals = {}
    /\ pc = "done" => \A refname \in LocalRefs : PlacesOfLocal(refname) <= 1

\* the HEAD branch was kept back by the last guard and the other branch is
\* left to delete
C5_Witness ==
    /\ pc = "done"
    /\ ~repo.head.detached
    /\ \E refname \in DOMAIN plan.kept_backs :
          plan.kept_backs[refname].message = "not to make detached HEAD"
    /\ plan.to_delete.merged_locals \cup plan.to_delete.stray_locals # {}

----------------------------------------------------------------------------
(* Claims about the accumulation, checked under SpecPlan.                  *)

\* the componentwise union of the results of the branches accumulated so far
UnionOfResults ==
    [merged_locals |->
        UNION {classifications[b].result.merged_locals : b \in accumulated},
     stray_locals |->
        UNION {classifications[b].result.stray_locals : b \in accumulated},
     merged_remotes |->
        UNION {classifications[b].result.merged_remotes : b \in accumulated},
     stray_remotes |->
        UNION {classifications[b].result.stray_remotes : b \in accumulated}]

\* the MergedOrStray values of a run while the classifications complete:
\* the accumulator, the results, the empty (the guards change none of them)
AccumulatedValues ==
    IF pc = "classify"
    THEN {merged_or_stray, EmptyMergedOrStray}
            \cup {classifications[b].result : b \in DOMAIN classifications}
    ELSE {}

\* C11: the MergedOrStray accumulated from the classification results is
\* the same in whatever order the classifications complete and are
\* accumulated: it is the componentwise union of the results accumulated,
\* and accumulate is commutative and associative with the empty
\* MergedOrStray as identity.
C11_AccumulateOrderIndependent ==
    /\ merged_or_stray = UnionOfResults
    /\ \A x, y \in AccumulatedValues : accumulate(x, y) = accumulate(y, x)
    /\ \A x, y, z \in AccumulatedValues :
          accumulate(accumulate(x, y), z) = accumulate(x, accumulate(y, z))
    /\ \A x \in AccumulatedValues :
          /\ accumulate(EmptyMergedOrStray, x) = x
          /\ accumulate(x, EmptyMergedOrStray) = x

\* both branches were accumulated, each with a remote the other does not have
C11_Witness ==
    /\ accumulated = LocalRefs
    /\ LET ra == classifications[<<"refs", "heads", "a">>].result
           rb == classifications[<<"refs", "heads", "b">>].result
       IN  /\ (ra.merged_remotes \cup ra.stray_remotes)
                 \ (rb.merged_remotes \cup rb.stray_remotes) # {}
           /\ (rb.merged_remotes \cup rb.stray_remotes)
                 \ (ra.merged_remotes \cup ra.stray_remotes) # {}
           /\ ra.merged_locals \cup ra.stray_locals # {}
           /\ rb.merged_locals \cup rb.stray_locals # {}

----------------------------------------------------------------------------
(* Claims about what a guard changes, checked under Spec.                  *)

\* the to_delete sets a guard step removed the local branch from, by the
\* OriginalClassification that names them
RemovedFromLocals(refname) ==
    {cls \in {"MergedLocal", "StrayLocal"} :
        \/ /\ cls = "MergedLocal"
           /\ refname \in plan.to_delete.merged_locals \ plan'.to_delete.merged_locals
        \/ /\ cls = "StrayLocal"
           /\ refname \in plan.to_delete.stray_locals \ plan'.to_delete.stray_locals}

\* the same for a remote branch
RemovedFromRemotes(remote_branch) ==
    {cls \in {"MergedRemote", "StrayRemote"} :
        \/ /\ cls = "MergedRemote"
           /\ remote_branch \in
                 plan.to_delete.merged_remotes \ plan'.to_delete.merged_remotes
        \/ /\ cls = "StrayRemote"
           /\ remote_branch \in
                 plan.to_delete.stray_remotes \ plan'.to_delete.stray_remotes}

\* every to_delete set after the step is a subset of what it was
C12_ToDeleteShrinks ==
    /\ plan'.to_delete.merged_locals \subseteq plan.to_delete.merged_locals
    /\ plan'.to_delete.stray_locals \subseteq plan.to_delete.stray_locals
    /\ plan'.to_delete.merged_remotes \subseteq plan.to_delete.merged_remotes
    /\ plan'.to_delete.stray_remotes \subseteq plan.to_delete.stray_remotes

\* no candidate is lost and none appears
C12_CandidatesKept ==
    /\ plan'.to_delete.merged_locals \cup plan'.to_delete.stray_locals
          \cup DOMAIN plan'.kept_backs
       = plan.to_delete.merged_locals \cup plan.to_delete.stray_locals
          \cup DOMAIN plan.kept_backs
    /\ plan'.to_delete.merged_remotes \cup plan'.to_delete.stray_remotes
          \cup DOMAIN plan'.kept_back_remotes
       = plan.to_delete.merged_remotes \cup plan.to_delete.stray_remotes
          \cup DOMAIN plan.kept_back_remotes

\* a candidate is newly kept back exactly when the step removed it from a
\* to_delete set, and its Reason then names a set it was removed from
C12_ReasonNamesTheSet ==
    /\ \A refname \in LocalRefs :
          LET newly == /\ refname \in DOMAIN plan'.kept_backs
                       /\ \/ refname \notin DOMAIN plan.kept_backs
                          \/ plan'.kept_backs[refname] # plan.kept_backs[refname]
          IN  /\ newly => RemovedFromLocals(refname) # {}
              /\ RemovedFromLocals(refname) # {} =>
                    /\ refname \in DOMAIN plan'.kept_backs
                    /\ plan'.kept_backs[refname].original_classification
                          \in RemovedFromLocals(refname)
    /\ \A remote_branch \in RemoteBranches :
          LET newly ==
                /\ remote_branch \in DOMAIN plan'.kept_back_remotes
                /\ \/ remote_branch \notin DOMAIN plan.kept_back_remotes
                   \/ plan'.kept_back_remotes[remote_branch]
                         # plan.kept_back_remotes[remote_branch]
          IN  /\ newly => RemovedFromRemotes(remote_branch) # {}
              /\ RemovedFromRemotes(remote_branch) # {} =>
                    /\ remote_branch \in DOMAIN plan'.kept_back_remotes
                    /\ plan'.kept_back_remotes[remote_branch].original_classification
                          \in RemovedFromRemotes(remote_branch)

\* C12: every guard only moves candidates from to_delete into the
\* kept-back maps.  For every guard and every starting plan, each to_delete
\* set afterwards is a subset of what it was, the locals (to_delete and
\* kept_backs keys together) and the remotes (to_delete and
\* kept_back_remotes keys together) are unchanged, and the Reason of each
\* newly kept-back candidate names, by its original_classification, the
\* set the candidate was removed from.
C12_GuardsOnlyMove ==
    [][C12_ToDeleteShrinks /\ C12_CandidatesKept /\ C12_ReasonNamesTheSet]_vars

\* a plan whose guards kept back a stray local as a base branch and a
\* stray remote as out of the filter's scope
C12_Witness ==
    /\ pc = "done"
    /\ \E refname \in DOMAIN plan.kept_backs :
          plan.kept_backs[refname] = Reason("StrayLocal", "a base branch")
    /\ \E remote_branch \in DOMAIN plan.kept_back_remotes :
          plan.kept_back_remotes[remote_branch]
             = Reason("StrayRemote", "out of filter scope")

====
